---------------------------- MODULE Spec2Model ----------------------------
(***************************************************************************)
(* Model of the streaming generation handler of src/api/generate.js: the   *)
(* request validation, the per-generation state (fullResponse,             *)
(* codeStarted, codeContent, lastAnalysisSent), the loop over the backend  *)
(* messages and the events written to the response stream.                 *)
(*                                                                         *)
(* Strings are sequences of one-character strings, so that includes(),     *)
(* trim() and the three regular expressions are computed character by      *)
(* character.                                                              *)
(***************************************************************************)
EXTENDS Naturals, Sequences, FiniteSets, TLC

VARIABLES
    pc,              \* per generation: position of the handler invocation
    req,             \* per generation: the request it was called with
    httpStatus,      \* per generation: res.status(...) (0: never set)
    st,              \* per generation: the locals of lines 76-79, or NoState
    out,             \* per generation: events written with res.write, in order
    ended,           \* per generation: res.end() was called
    queried,         \* per generation: query(...) was called
    received,        \* per generation: backend messages consumed so far (history)
    raised,          \* per generation: the error the backend raised, or NoError (history)
    cancelRequested  \* per generation: a cancel request was issued (session registry)

vars == <<pc, req, httpStatus, st, out, ended, queried, received, raised, cancelRequested>>

-----------------------------------------------------------------------------
(* Bounds *)

\* Backend messages consumed by one generation.
MaxMsgs == 4

\* Backend messages consumed by each of two concurrent generations.
MaxConcMsgs == 2

\* Backend messages consumed by a generation that may be cancelled.
MaxCancelMsgs == 3

Gens == {1, 2}

-----------------------------------------------------------------------------
(* Strings *)

\* The backtick character (U+0060), written "^": the lexer accepts no backtick.
BT == "^"
NL == "\n"
SP == " "

\* The opening marker (three backticks, html) of lines 110, 117, 139 and 150.
MARKER == <<BT, BT, BT, "h", "t", "m", "l">>

\* The closing delimiter (three backticks) of lines 117 and 139.
FENCE == <<BT, BT, BT>>

\* The characters String.prototype.trim removes, among those of the model.
IsWhite(c) == c \in {SP, NL}

Min(S) == CHOOSE i \in S : \A j \in S : i <= j

Max(S) == CHOOSE i \in S : \A j \in S : j <= i

\* p occurs in s at index i (1-based).
StartsAt(s, p, i) ==
    /\ i >= 1
    /\ i + Len(p) - 1 <= Len(s)
    /\ SubSeq(s, i, i + Len(p) - 1) = p

IsPrefix(p, s) == Len(p) <= Len(s) /\ SubSeq(s, 1, Len(p)) = p

\* s from index i to its end.
From(s, i) == SubSeq(s, i, Len(s))

\* The last element of a non-empty sequence.
LastOf(q) == q[Len(q)]

\* String.prototype.includes.
Includes(s, p) == \E i \in 1..Len(s) : StartsAt(s, p, i)

\* String.prototype.trim: leading and trailing white space removed.
Trim(s) ==
    LET keep == {i \in 1..Len(s) : ~IsWhite(s[i])}
    IN  IF keep = {} THEN <<>> ELSE SubSeq(s, Min(keep), Max(keep))

NoMatch == [matched |-> FALSE, group |-> <<>>]

\* The attempt of line 117 with a greedy group, [\s\S]* for [\s\S]*?: the group
\* runs to the end of the string.
DeltaAttemptGreedy(s, i) ==
    LET j  == i + Len(MARKER)
        j1 == IF j <= Len(s) /\ s[j] = NL THEN j + 1 ELSE j
    IN  [matched |-> TRUE, group |-> SubSeq(s, j1, Len(s))]

\* One attempt of the regular expression of line 117 with the marker at index i.
\* \n? is greedy, [\s\S]*? is lazy: the group ends before the first closing delimiter at or
\* after its start, or at the end of the string ($, no m flag).
DeltaAttempt(s, i) ==
    LET j  == i + Len(MARKER)
        j1 == IF j <= Len(s) /\ s[j] = NL THEN j + 1 ELSE j
        stops == {e \in j1..(Len(s) + 1) : StartsAt(s, FENCE, e) \/ e = Len(s) + 1}
    IN  [matched |-> TRUE, group |-> SubSeq(s, j1, Min(stops) - 1)]

\* fullResponse.match of line 117 (marker, optional newline, lazy group, closing
\* delimiter or end of string): the leftmost match.
DeltaCodeMatch(s) ==
    LET starts == {i \in 1..Len(s) : StartsAt(s, MARKER, i)}
    IN  IF starts = {} THEN NoMatch ELSE DeltaAttempt(s, Min(starts))

\* The ends of the lazy group of the regular expression of line 139 when it
\* starts at j1.
ClosedStops(s, j1) == {e \in j1..Len(s) : StartsAt(s, FENCE, e)}

\* One attempt of the regular expression of line 139 with the marker at index i:
\* the optional newline is first taken, and given back when no closing delimiter
\* follows.
AssistantAttempt(s, i) ==
    LET j  == i + Len(MARKER)
        j1 == IF j <= Len(s) /\ s[j] = NL THEN j + 1 ELSE j
    IN  IF ClosedStops(s, j1) # {}
        THEN [matched |-> TRUE, group |-> SubSeq(s, j1, Min(ClosedStops(s, j1)) - 1)]
        ELSE IF ClosedStops(s, j) # {}
             THEN [matched |-> TRUE, group |-> SubSeq(s, j, Min(ClosedStops(s, j)) - 1)]
             ELSE NoMatch

\* fullResponse.match of line 139 (marker, optional newline, lazy group, closing
\* delimiter): the leftmost index with a match.
AssistantCodeMatch(s) ==
    LET starts == {i \in 1..Len(s) :
                     StartsAt(s, MARKER, i) /\ AssistantAttempt(s, i).matched}
    IN  IF starts = {} THEN NoMatch ELSE AssistantAttempt(s, Min(starts))

\* fullResponse.match of line 150: the text before the first marker.
AnalysisMatch(s) ==
    LET starts == {i \in 1..Len(s) : StartsAt(s, MARKER, i)}
    IN  IF starts = {} THEN NoMatch
        ELSE [matched |-> TRUE, group |-> SubSeq(s, 1, Min(starts) - 1)]

-----------------------------------------------------------------------------
(* Events written to the response stream (sendEvent, lines 71-73) *)

Status(phase)   == [type |-> "status", phase |-> phase]
CodeStart       == [type |-> "code_start"]
Code(c)         == [type |-> "code", content |-> c]
Analysis(a)     == [type |-> "analysis", content |-> a]
\* The usage and cost fields of complete are copied from the result message and
\* are left out.
Complete(c)     == [type |-> "complete", code |-> c]
ErrorEvent(msg) == [type |-> "error", message |-> msg]
Cancelled       == [type |-> "cancelled"]

-----------------------------------------------------------------------------
(* Backend messages *)

\* A stream_event whose event is a content_block_delta with a text_delta.
TextDelta(t)   == [type |-> "stream_event", event |-> "content_block_delta", text |-> t]
\* Any other stream_event (message_start, content_block_start, ...).
StreamOther    == [type |-> "stream_event", event |-> "message_start"]
\* An assistant message: content is a sequence of blocks, or NoContent.
Assistant(c)   == [type |-> "assistant", content |-> c]
SystemInit     == [type |-> "system", subtype |-> "init"]
Result         == [type |-> "result"]

\* message.message?.content undefined, and the null parseAgentMessage returns: a
\* sequence that is no string of characters.
NoContent == <<[type |-> "undefined"]>>
Null == <<"null">>
TextBlock(t) == [type |-> "text", text |-> t]
ToolUseBlock == [type |-> "tool_use"]

RECURSIVE ConcatText(_)
\* The loop of lines 39-43: the texts of the text blocks, concatenated.
ConcatText(content) ==
    IF content = <<>> THEN <<>>
    ELSE (IF Head(content).type = "text" THEN Head(content).text ELSE <<>>)
         \o ConcatText(Tail(content))

\* parseAgentMessage (lines 34-47).
parseAgentMessage(message) ==
    IF message.type = "assistant" /\ message.content # NoContent
    THEN ConcatText(message.content)
    ELSE Null

-----------------------------------------------------------------------------
(* The generation state and the processing of one backend message *)

NoState == [allocated |-> FALSE]

\* Lines 76-79.
InitState ==
    [fullResponse |-> <<>>, codeStarted |-> FALSE,
     codeContent |-> <<>>, lastAnalysisSent |-> <<>>]

\* OnTextDelta without the codeStarted test of line 111: code_start is sent on
\* every text delta that finds the marker in the buffer.
OnTextDeltaRestart(s, newText) ==
    LET full == s.fullResponse \o newText
        codeMatch == DeltaCodeMatch(full)
        currentAnalysis == Trim(full)
    IN  IF Includes(full, MARKER)
        THEN [st |-> [s EXCEPT !.fullResponse = full,
                               !.codeStarted = TRUE,
                               !.codeContent = codeMatch.group],
              events |-> <<CodeStart, Code(codeMatch.group)>>]
        ELSE IF currentAnalysis # s.lastAnalysisSent
             THEN [st |-> [s EXCEPT !.fullResponse = full,
                                    !.lastAnalysisSent = currentAnalysis],
                   events |-> <<Analysis(currentAnalysis)>>]
             ELSE [st |-> [s EXCEPT !.fullResponse = full], events |-> <<>>]

\* OnTextDelta sending, in the marker branch, the text before the marker as an
\* analysis event as well, as the assistant branch does (lines 150-153).
OnTextDeltaWithAnalysis(s, newText) ==
    LET full == s.fullResponse \o newText
        codeMatch == DeltaCodeMatch(full)
        analysisMatch == AnalysisMatch(full)
        currentAnalysis == Trim(full)
    IN  IF Includes(full, MARKER)
        THEN [st |-> [s EXCEPT !.fullResponse = full,
                               !.codeStarted = TRUE,
                               !.codeContent = IF codeMatch.matched THEN codeMatch.group
                                               ELSE s.codeContent],
              events |-> (IF s.codeStarted THEN <<>> ELSE <<CodeStart>>)
                         \o (IF codeMatch.matched THEN <<Code(codeMatch.group)>> ELSE <<>>)
                         \o (IF analysisMatch.matched
                             THEN <<Analysis(Trim(analysisMatch.group))>> ELSE <<>>)]
        ELSE IF currentAnalysis # s.lastAnalysisSent
             THEN [st |-> [s EXCEPT !.fullResponse = full,
                                    !.lastAnalysisSent = currentAnalysis],
                   events |-> <<Analysis(currentAnalysis)>>]
             ELSE [st |-> [s EXCEPT !.fullResponse = full], events |-> <<>>]

\* OnTextDelta looking for the marker in the text delta (line 110 applied to
\* newText) and not in the buffer.
OnTextDeltaPerFragment(s, newText) ==
    LET full == s.fullResponse \o newText
        codeMatch == DeltaCodeMatch(full)
        currentAnalysis == Trim(full)
    IN  IF Includes(newText, MARKER)
        THEN [st |-> [s EXCEPT !.fullResponse = full,
                               !.codeStarted = TRUE,
                               !.codeContent = IF codeMatch.matched THEN codeMatch.group
                                               ELSE s.codeContent],
              events |-> (IF s.codeStarted THEN <<>> ELSE <<CodeStart>>)
                         \o (IF codeMatch.matched THEN <<Code(codeMatch.group)>> ELSE <<>>)]
        ELSE IF currentAnalysis # s.lastAnalysisSent
             THEN [st |-> [s EXCEPT !.fullResponse = full,
                                    !.lastAnalysisSent = currentAnalysis],
                   events |-> <<Analysis(currentAnalysis)>>]
             ELSE [st |-> [s EXCEPT !.fullResponse = full], events |-> <<>>]

\* Lines 105-130: a text delta is appended and the buffer is classified again.
OnTextDelta(s, newText) ==
    LET full == s.fullResponse \o newText
        codeMatch == DeltaCodeMatch(full)
        currentAnalysis == Trim(full)
    IN  IF Includes(full, MARKER)
        THEN [st |-> [s EXCEPT !.fullResponse = full,
                               !.codeStarted = TRUE,
                               !.codeContent = IF codeMatch.matched THEN codeMatch.group
                                               ELSE s.codeContent],
              events |-> (IF s.codeStarted THEN <<>> ELSE <<CodeStart>>)
                         \o (IF codeMatch.matched THEN <<Code(codeMatch.group)>> ELSE <<>>)]
        ELSE IF currentAnalysis # s.lastAnalysisSent
             THEN [st |-> [s EXCEPT !.fullResponse = full,
                                    !.lastAnalysisSent = currentAnalysis],
                   events |-> <<Analysis(currentAnalysis)>>]
             ELSE [st |-> [s EXCEPT !.fullResponse = full], events |-> <<>>]

\* OnAssistant without the assignment of line 141: the code is sent and not kept.
OnAssistantNoStore(s, message) ==
    LET text == parseAgentMessage(message)
        codeMatch == AssistantCodeMatch(text)
        analysisMatch == AnalysisMatch(text)
    IN  IF text = Null \/ text = <<>>
        THEN [st |-> s, events |-> <<>>]
        ELSE [st |-> [s EXCEPT !.fullResponse = text,
                               !.codeStarted = s.codeStarted \/ codeMatch.matched],
              events |-> (IF codeMatch.matched /\ ~s.codeStarted THEN <<CodeStart>> ELSE <<>>)
                         \o (IF codeMatch.matched THEN <<Code(codeMatch.group)>> ELSE <<>>)
                         \o (IF analysisMatch.matched /\ Trim(analysisMatch.group) # <<>>
                             THEN <<Analysis(Trim(analysisMatch.group))>> ELSE <<>>)]

\* Lines 133-155: the text of an assistant message replaces the buffer.
OnAssistant(s, message) ==
    LET text == parseAgentMessage(message)
        codeMatch == AssistantCodeMatch(text)
        analysisMatch == AnalysisMatch(text)
    IN  IF text = Null \/ text = <<>>
        THEN [st |-> s, events |-> <<>>]
        ELSE [st |-> [s EXCEPT !.fullResponse = text,
                               !.codeStarted = s.codeStarted \/ codeMatch.matched,
                               !.codeContent = IF codeMatch.matched THEN codeMatch.group
                                               ELSE s.codeContent],
              events |-> (IF codeMatch.matched /\ ~s.codeStarted THEN <<CodeStart>> ELSE <<>>)
                         \o (IF codeMatch.matched THEN <<Code(codeMatch.group)>> ELSE <<>>)
                         \o (IF analysisMatch.matched /\ Trim(analysisMatch.group) # <<>>
                             THEN <<Analysis(Trim(analysisMatch.group))>> ELSE <<>>)]

\* The body of the loop of lines 100-168 for one message.
ProcessMessage(s, message) ==
    IF message.type = "stream_event"
    THEN IF message.event = "content_block_delta"
         THEN OnTextDelta(s, message.text)
         ELSE [st |-> s, events |-> <<>>]
    ELSE IF message.type = "assistant"
    THEN OnAssistant(s, message)
    ELSE IF message.type = "system" /\ message.subtype = "init"
    THEN [st |-> s, events |-> <<Status("generating")>>]
    ELSE IF message.type = "result"
    THEN [st |-> s, events |-> <<Complete(s.codeContent)>>]
    ELSE [st |-> s, events |-> <<>>]

-----------------------------------------------------------------------------
(* Inputs *)

\* Complete backend outputs, each as the pieces the backend may stream it in
\* (a text delta is one piece or several consecutive ones):
\* Text1, the shape the system prompt of lines 10-12 asks for: analysis, marker,
\* newline, code, closing delimiter, with cuts inside the marker, before the
\* newline and inside the closing delimiter;
\* Text2, a code block with no analysis and no newline, followed by more text and
\* a second delimiter;
\* Text3, prose with stray backticks and no marker.
Pieces1 == << <<"a", NL>>, <<BT, BT>>, <<BT, "h", "t", "m", "l">>, <<NL>>,
              <<"c", NL, BT>>, <<BT, BT>> >>
Pieces2 == << MARKER, <<"c">>, FENCE, <<"d">> \o FENCE >>
Pieces3 == << <<SP, "a">>, <<BT, BT>>, <<SP>> >>

RECURSIVE Flatten(_)
Flatten(pieces) ==
    IF pieces = <<>> THEN <<>> ELSE Head(pieces) \o Flatten(Tail(pieces))

Text1 == Flatten(Pieces1)
Text2 == Flatten(Pieces2)
Text3 == Flatten(Pieces3)

Cuts(pieces) == {Flatten(SubSeq(pieces, 1, n)) : n \in 0..Len(pieces)}

\* The buffers the backend can have streamed: a complete output cut at a piece.
Buffers == Cuts(Pieces1) \cup Cuts(Pieces2) \cup Cuts(Pieces3)

\* The text deltas that continue buffer b within the buffers B (the empty delta
\* among them).
DeltasIn(B, b) == {From(c, Len(b) + 1) : c \in {c \in B : IsPrefix(b, c)}}
Deltas(b) == DeltasIn(Buffers, b)

\* The contents of assistant messages: a complete output in one block, an output
\* cut before its closing delimiter and spread over several blocks, prose alone,
\* and a message with no content.
Contents ==
    { <<TextBlock(Text1)>>,
      <<TextBlock(<<"a", NL>>), ToolUseBlock, TextBlock(MARKER \o <<NL, "c">>)>>,
      <<TextBlock(<<"a", NL>>)>>,
      <<TextBlock(Text2)>>,
      NoContent }

\* The backend messages a generation whose buffer is b may receive next.
Messages(b) ==
    {TextDelta(t) : t \in Deltas(b)} \cup {Assistant(c) : c \in Contents}
    \cup {StreamOther, SystemInit, Result}

Undefined == "undefined"
\* req.body: undefined when the request has no body, else an object whose prompt
\* is missing (undefined), empty or a description.
NoBody == [type |-> "undefined"]
Prompts == {Undefined, "", "a calculator"}
Bodies == {NoBody} \cup [type : {"object"}, prompt : Prompts]
Requests == [method : {"POST", "GET"}, body : Bodies]

\* !prompt of line 60.
Falsy(p) == p = Undefined \/ p = ""

NoRequest == [method |-> "none"]
NoError == "none"
ErrorMessages == {"overloaded", "timeout"}

-----------------------------------------------------------------------------
(* The handler *)

Init ==
    /\ pc = [g \in Gens |-> "idle"]
    /\ req = [g \in Gens |-> NoRequest]
    /\ httpStatus = [g \in Gens |-> 0]
    /\ st = [g \in Gens |-> NoState]
    /\ out = [g \in Gens |-> <<>>]
    /\ ended = [g \in Gens |-> FALSE]
    /\ queried = [g \in Gens |-> FALSE]
    /\ received = [g \in Gens |-> <<>>]
    /\ raised = [g \in Gens |-> NoError]
    /\ cancelRequested = [g \in Gens |-> FALSE]

\* Lines 54-56: any method but POST is answered 405.
RejectMethod(g, r) ==
    /\ pc[g] = "idle"
    /\ r.method # "POST"
    /\ req' = [req EXCEPT ![g] = r]
    /\ httpStatus' = [httpStatus EXCEPT ![g] = 405]
    /\ pc' = [pc EXCEPT ![g] = "returned"]
    /\ UNCHANGED <<st, out, ended, queried, received, raised, cancelRequested>>

\* Line 58: destructuring req.body throws a TypeError when there is no body; the
\* statement is outside the try block and the exception leaves the handler.
DestructureThrows(g, r) ==
    /\ pc[g] = "idle"
    /\ r.method = "POST"
    /\ r.body = NoBody
    /\ req' = [req EXCEPT ![g] = r]
    /\ pc' = [pc EXCEPT ![g] = "threw"]
    /\ UNCHANGED <<httpStatus, st, out, ended, queried, received, raised, cancelRequested>>

\* Lines 60-62: a falsy prompt is answered 400.
RejectPrompt(g, r) ==
    /\ pc[g] = "idle"
    /\ r.method = "POST"
    /\ r.body # NoBody
    /\ Falsy(r.body.prompt)
    /\ req' = [req EXCEPT ![g] = r]
    /\ httpStatus' = [httpStatus EXCEPT ![g] = 400]
    /\ pc' = [pc EXCEPT ![g] = "returned"]
    /\ UNCHANGED <<st, out, ended, queried, received, raised, cancelRequested>>

ValidRequest(r) == r.method = "POST" /\ r.body # NoBody /\ ~Falsy(r.body.prompt)

\* StartGeneration with the two status writes of lines 81 and 97 exchanged: the
\* thinking status is sent first.
StartGenerationThinkingFirst(g, r) ==
    /\ pc[g] = "idle"
    /\ ValidRequest(r)
    /\ req' = [req EXCEPT ![g] = r]
    /\ st' = [st EXCEPT ![g] = InitState]
    /\ queried' = [queried EXCEPT ![g] = TRUE]
    /\ out' = [out EXCEPT ![g] = <<Status("thinking"), Status("connecting")>>]
    /\ pc' = [pc EXCEPT ![g] = "streaming"]
    /\ UNCHANGED <<httpStatus, ended, received, raised, cancelRequested>>

\* StartGeneration without the status write of line 97: no thinking status.
StartGenerationNoThinking(g, r) ==
    /\ pc[g] = "idle"
    /\ ValidRequest(r)
    /\ req' = [req EXCEPT ![g] = r]
    /\ st' = [st EXCEPT ![g] = InitState]
    /\ queried' = [queried EXCEPT ![g] = TRUE]
    /\ out' = [out EXCEPT ![g] = <<Status("connecting")>>]
    /\ pc' = [pc EXCEPT ![g] = "streaming"]
    /\ UNCHANGED <<httpStatus, ended, received, raised, cancelRequested>>

\* Lines 64-100, query() returning: the state is created, the connecting and the
\* thinking status are sent, and the handler waits for the first message.
StartGeneration(g, r) ==
    /\ pc[g] = "idle"
    /\ ValidRequest(r)
    /\ req' = [req EXCEPT ![g] = r]
    /\ st' = [st EXCEPT ![g] = InitState]
    /\ queried' = [queried EXCEPT ![g] = TRUE]
    /\ out' = [out EXCEPT ![g] = <<Status("connecting"), Status("thinking")>>]
    /\ pc' = [pc EXCEPT ![g] = "streaming"]
    /\ UNCHANGED <<httpStatus, ended, received, raised, cancelRequested>>

\* A catch block that only logs the error.
CatchSilent(events, e) == events

\* Lines 171-175: the catch block.
Catch(events, e) == events \o <<ErrorEvent(e)>>

\* Lines 64-95 and 171-175, query() throwing e.
QueryThrows(g, r, e) ==
    /\ pc[g] = "idle"
    /\ ValidRequest(r)
    /\ req' = [req EXCEPT ![g] = r]
    /\ st' = [st EXCEPT ![g] = InitState]
    /\ queried' = [queried EXCEPT ![g] = TRUE]
    /\ raised' = [raised EXCEPT ![g] = e]
    /\ out' = [out EXCEPT ![g] = Catch(<<Status("connecting")>>, e)]
    /\ ended' = [ended EXCEPT ![g] = TRUE]
    /\ pc' = [pc EXCEPT ![g] = "failed"]
    /\ UNCHANGED <<httpStatus, received, cancelRequested>>

\* The four variables declared once, outside the handler: every invocation works
\* on the state of the first generation that was started.
SharedLocals(g) == st[CHOOSE h \in Gens : st[h] # NoState]

\* The state invocation g of the handler works on: fullResponse, codeStarted,
\* codeContent and lastAnalysisSent are declared inside the handler (lines 76-79),
\* so each invocation has its own.
Locals(g) == st[g]

\* One iteration of the loop of lines 100-168: message m is consumed.
Deliver(g, m) ==
    /\ pc[g] = "streaming"
    /\ received' = [received EXCEPT ![g] = Append(@, m)]
    /\ st' = [st EXCEPT ![g] = ProcessMessage(Locals(g), m).st]
    /\ out' = [out EXCEPT ![g] = @ \o ProcessMessage(Locals(g), m).events]
    /\ UNCHANGED <<pc, req, httpStatus, ended, queried, raised, cancelRequested>>

\* Lines 100 and 170: the stream is exhausted and the response is ended.
StreamEnds(g) ==
    /\ pc[g] = "streaming"
    /\ ended' = [ended EXCEPT ![g] = TRUE]
    /\ pc' = [pc EXCEPT ![g] = "done"]
    /\ UNCHANGED <<req, httpStatus, st, out, queried, received, raised, cancelRequested>>

\* Lines 100 and 171-175: the stream throws e while the next message is awaited.
StreamThrows(g, e) ==
    /\ pc[g] = "streaming"
    /\ raised' = [raised EXCEPT ![g] = e]
    /\ out' = [out EXCEPT ![g] = Catch(@, e)]
    /\ ended' = [ended EXCEPT ![g] = TRUE]
    /\ pc' = [pc EXCEPT ![g] = "failed"]
    /\ UNCHANGED <<req, httpStatus, st, queried, received, cancelRequested>>

\* One generation, every message sequence up to MaxMsgs messages.
Next ==
    \E g \in {1} :
        \/ \E r \in Requests : RejectMethod(g, r)
        \/ \E r \in Requests : DestructureThrows(g, r)
        \/ \E r \in Requests : RejectPrompt(g, r)
        \/ \E r \in Requests : StartGeneration(g, r)
        \/ \E r \in Requests, e \in ErrorMessages : QueryThrows(g, r, e)
        \/ /\ pc[g] = "streaming"
           /\ Len(received[g]) < MaxMsgs
           /\ \E m \in Messages(st[g].fullResponse) : Deliver(g, m)
        \/ StreamEnds(g)
        \/ \E e \in ErrorMessages : StreamThrows(g, e)

Spec == Init /\ [][Next]_vars

-----------------------------------------------------------------------------
(* Two delivery modes of the same content *)

\* What generation 2 receives for message m of generation 1: for a text delta,
\* an assistant message holding the whole content generation 1 has so far.
Mirror(m) ==
    IF m = Result THEN Result ELSE Assistant(<<TextBlock(st[1].fullResponse)>>)

\* Generation 1 receives a content as text deltas and then the result message;
\* generation 2 receives, after each of them, the same cumulative content as an
\* assistant message, and the result message.
EquivNext ==
    \/ \E g \in Gens, r \in Requests : StartGeneration(g, r)
    \/ /\ pc[1] = "streaming" /\ pc[2] = "streaming"
       /\ Len(received[1]) = Len(received[2])
       /\ Len(received[1]) < MaxMsgs
       /\ IF received[1] = <<>> THEN TRUE ELSE LastOf(received[1]) # Result
       /\ \E m \in {TextDelta(t) : t \in Deltas(st[1].fullResponse)} \cup {Result} :
             Deliver(1, m)
    \/ /\ pc[1] = "streaming" /\ pc[2] = "streaming"
       /\ Len(received[2]) < Len(received[1])
       /\ Deliver(2, Mirror(LastOf(received[1])))

SpecEquiv == Init /\ [][EquivNext]_vars

-----------------------------------------------------------------------------
(* Two concurrent generations *)

\* The messages of two concurrent generations: prose in text deltas, a complete
\* output in an assistant message, the init and the result message.
ConcMessages(b) ==
    {TextDelta(t) : t \in DeltasIn(Cuts(Pieces3), b) \ {<<>>}}
    \cup {Assistant(<<TextBlock(Text1)>>), Result}

\* The handler is called twice and the two invocations interleave at the await
\* of line 100.
ConcNext ==
    \E g \in Gens :
        \/ \E r \in Requests : StartGeneration(g, r)
        \/ /\ pc[g] = "streaming"
           /\ Len(received[g]) < MaxConcMsgs
           /\ \E m \in ConcMessages(st[g].fullResponse) : Deliver(g, m)
        \/ StreamEnds(g)
        \/ \E e \in ErrorMessages : StreamThrows(g, e)

SpecConc == Init /\ [][ConcNext]_vars

-----------------------------------------------------------------------------
(* One output streamed character by character *)

\* An output of the shape the system prompt asks for, followed by more text.
CharText == <<"a">> \o MARKER \o <<NL, "c">> \o FENCE \o <<"d">>

Prefixes(s) == {SubSeq(s, 1, n) : n \in 0..Len(s)}

\* The backend streams CharText in text deltas of any length, cut anywhere, and
\* may close the stream with a result message.
CharMessages(b) ==
    {TextDelta(t) : t \in DeltasIn(Prefixes(CharText), b) \ {<<>>}} \cup {Result}

\* One generation fed with text deltas alone; the result message is the last
\* message.
CharNext ==
    \E g \in {1} :
        \/ \E r \in Requests : StartGeneration(g, r)
        \/ /\ pc[g] = "streaming"
           /\ IF received[g] = <<>> THEN TRUE ELSE LastOf(received[g]) # Result
           /\ \E m \in CharMessages(st[g].fullResponse) : Deliver(g, m)
        \/ StreamEnds(g)

SpecChars == Init /\ [][CharNext]_vars

-----------------------------------------------------------------------------
(* Cancellation over the persistent channel *)

\* A cancel message for a session whose generation is in flight: the
\* cancellation handle is invoked. With no generation in flight it is a no-op.
CancelRequest(g) ==
    /\ pc[g] = "streaming"
    /\ ~cancelRequested[g]
    /\ cancelRequested' = [cancelRequested EXCEPT ![g] = TRUE]
    /\ UNCHANGED <<pc, req, httpStatus, st, out, ended, queried, received, raised>>

\* The cancellation acknowledged without leaving the loop.
HonourCancelAndGoOn(g) ==
    /\ pc[g] = "streaming"
    /\ cancelRequested[g]
    /\ out' = [out EXCEPT ![g] = Append(@, Cancelled)]
    /\ UNCHANGED <<pc, req, httpStatus, st, ended, queried, received, raised, cancelRequested>>

\* The loop wakes up with the handle cancelled (checked before each event is
\* processed, or surfaced by the backend as the abort signal): the event is not
\* processed, the cancellation is acknowledged and the generation is over.
HonourCancel(g) ==
    /\ pc[g] = "streaming"
    /\ cancelRequested[g]
    /\ out' = [out EXCEPT ![g] = Append(@, Cancelled)]
    /\ ended' = [ended EXCEPT ![g] = TRUE]
    /\ pc' = [pc EXCEPT ![g] = "cancelled"]
    /\ UNCHANGED <<req, httpStatus, st, queried, received, raised, cancelRequested>>

\* One generation of a session that may be cancelled.
CancelNext ==
    \E g \in {1} :
        \/ \E r \in Requests : StartGeneration(g, r)
        \/ CancelRequest(g)
        \/ HonourCancel(g)
        \/ /\ pc[g] = "streaming"
           /\ ~cancelRequested[g]
           /\ Len(received[g]) < MaxCancelMsgs
           /\ \E m \in ConcMessages(st[g].fullResponse) : Deliver(g, m)
        \/ ~cancelRequested[g] /\ StreamEnds(g)
        \/ ~cancelRequested[g] /\ \E e \in ErrorMessages : StreamThrows(g, e)

SpecCancel == Init /\ [][CancelNext]_vars

-----------------------------------------------------------------------------
(* Properties of one generation's response stream *)

\* The indices of the events of type t in the event sequence o.
Idx(o, t) == {i \in 1..Len(o) : o[i].type = t}

\* Generations whose handler went past validation.
Started(g) == pc[g] \in {"streaming", "done", "failed", "cancelled"}

\* The events that a step appends to the response of g.
NewEvents(g) == SubSeq(out'[g], Len(out[g]) + 1, Len(out'[g]))

\* The types of the events that a step appends to the response of g.
NewTypes(g) ==
    [i \in 1..(Len(out'[g]) - Len(out[g])) |-> out'[g][Len(out[g]) + i].type]

IsTextDelta(m) == m.type = "stream_event" /\ m.event = "content_block_delta"

\* C1: in every generation at most one code_start event is emitted, and every
\* code event comes after a code_start event of the same generation.
C1_OneCodeStartBeforeCode ==
    \A g \in Gens :
        /\ Cardinality(Idx(out[g], "code_start")) <= 1
        /\ \A i \in Idx(out[g], "code") :
              \E j \in Idx(out[g], "code_start") : j < i

\* A generation that entered the code region and sent its code twice, once on a
\* text delta and once on an assistant message.
C1_Witness ==
    /\ Cardinality(Idx(out[1], "code_start")) = 1
    /\ Cardinality(Idx(out[1], "code")) >= 2
    /\ \E i, j \in 1..Len(received[1]) :
          /\ received[1][i].type = "stream_event"
          /\ received[1][j].type = "assistant"

\* C2: within one generation no analysis event is emitted once code_start has
\* been emitted.
C2_AnalysisBeforeCodeStart ==
    \A g \in Gens :
        \A i \in Idx(out[g], "code_start") :
            \A j \in Idx(out[g], "analysis") : j < i

\* The index of the first opening marker of s (s includes one).
MarkerAt(s) == Min({i \in 1..Len(s) : StartsAt(s, MARKER, i)})

\* The content of s after its first opening marker and the newline that may
\* follow it.
AfterMarker(s) ==
    LET j == MarkerAt(s) + Len(MARKER)
    IN  From(s, IF j <= Len(s) /\ s[j] = NL THEN j + 1 ELSE j)

\* s holds the opening marker and no closing delimiter after it.
Unclosed(s) ==
    /\ Includes(s, MARKER)
    /\ ~Includes(From(s, MarkerAt(s) + Len(MARKER)), FENCE)

\* C4: when the result message arrives while the buffer holds the opening marker
\* and no closing delimiter, the complete event carries everything after the
\* marker, however the buffer was delivered.
C4_UnclosedCodeCompleted ==
    \A g \in Gens :
        ( /\ pc[g] = "streaming"
          /\ received[g] # <<>>
          /\ LastOf(received[g]) = Result
          /\ Unclosed(st[g].fullResponse) )
        => /\ LastOf(out[g]).type = "complete"
           /\ LastOf(out[g]).code = AfterMarker(st[g].fullResponse)

\* The content of the last code event before index i of o, or the empty string.
LastCodeBefore(o, i) ==
    LET prev == {j \in Idx(o, "code") : j < i}
    IN  IF prev = {} THEN <<>> ELSE o[Max(prev)].content

Results(g) == {i \in 1..Len(received[g]) : received[g][i] = Result}

\* C5: every result message processed yields exactly one complete event, whose
\* code is the content of the most recent code event of the generation, or the
\* empty string when there was none; and completing is never reported as an
\* error (an error event only follows an error raised by the backend).
C5_CompleteCarriesLastCode ==
    \A g \in Gens :
        /\ Cardinality(Idx(out[g], "complete")) = Cardinality(Results(g))
        /\ \A i \in Idx(out[g], "complete") :
              out[g][i].code = LastCodeBefore(out[g], i)
        /\ (raised[g] = NoError) => Idx(out[g], "error") = {}
        /\ received[g] # <<>> /\ LastOf(received[g]) = Result /\ pc[g] = "streaming"
              => LastOf(out[g]).type = "complete"

\* A generation completed twice: once before any code event (empty code), once
\* after code was sent (that code).
C5_Witness ==
    \E i, j \in Idx(out[1], "complete") :
        /\ i < j
        /\ out[1][i].code = <<>>
        /\ Idx(out[1], "code_start") = {}  \/  Min(Idx(out[1], "code_start")) > i
        /\ out[1][j].code # <<>>

\* s is analysis A, the opening marker, a newline, code C and the closing
\* delimiter, with no delimiter inside A or C.
AnalysisPart(s) == SubSeq(s, 1, MarkerAt(s) - 1)
CodePart(s) == SubSeq(s, MarkerAt(s) + Len(MARKER) + 1, Len(s) - Len(FENCE))
FencedShape(s) ==
    /\ Includes(s, MARKER)
    /\ Len(s) >= MarkerAt(s) + Len(MARKER) + Len(FENCE)
    /\ s[MarkerAt(s) + Len(MARKER)] = NL
    /\ StartsAt(s, FENCE, Len(s) - Len(FENCE) + 1)
    /\ ~Includes(AnalysisPart(s), FENCE)
    /\ ~Includes(CodePart(s), FENCE)

OnlyDeltas(g) ==
    \A i \in 1..Len(received[g]) :
        received[g][i].type = "stream_event" /\ received[g][i].event = "content_block_delta"

\* C6: once text deltas have built a buffer made of analysis A, the opening
\* marker, a newline, code C and the closing delimiter, the last analysis event
\* carries trim(A) and the code payload is C, however the buffer was cut.
C6_FencedBufferClassified ==
    \A g \in Gens :
        ( /\ pc[g] = "streaming"
          /\ OnlyDeltas(g)
          /\ FencedShape(st[g].fullResponse)
          /\ Trim(AnalysisPart(st[g].fullResponse)) # <<>> )
        => /\ Idx(out[g], "analysis") # {}
           /\ out[g][Max(Idx(out[g], "analysis"))].content
                 = Trim(AnalysisPart(st[g].fullResponse))
           /\ st[g].codeContent = CodePart(st[g].fullResponse)
           /\ LastOf(out[g]) = Code(CodePart(st[g].fullResponse))

\* C8: a POST request whose prompt is missing or empty is answered 400, and no
\* generation state is created, the backend is not queried and no event is sent.
C8_FalsyPromptRejected ==
    \A g \in Gens :
        ( /\ req[g].method = "POST"
          /\ IF req[g].body = NoBody THEN TRUE ELSE Falsy(req[g].body.prompt) )
        => /\ httpStatus[g] = 400
           /\ pc[g] = "returned"
           /\ st[g] = NoState
           /\ ~queried[g]
           /\ out[g] = <<>>

\* C9: when the backend raises an error, creating the query or delivering a
\* message, the handler catches it: exactly one error event is emitted, it
\* carries the error's message and is the last event, the response is ended, and
\* the handler does not throw. No error event is emitted otherwise.
C9_BackendErrorReported ==
    \A g \in Gens :
        /\ (raised[g] # NoError) =>
              /\ Idx(out[g], "error") = {Len(out[g])}
              /\ LastOf(out[g]).message = raised[g]
              /\ ended[g]
              /\ pc[g] = "failed"
        /\ (raised[g] = NoError) => Idx(out[g], "error") = {}
        /\ (queried[g] => pc[g] # "threw")

\* The backend raised an error after the generation had sent code.
C9_Witness ==
    /\ raised[1] # NoError
    /\ Len(received[1]) >= 2
    /\ Idx(out[1], "code") # {}

-----------------------------------------------------------------------------
(* Properties of the delivery modes, of cancellation and of concurrency *)

\* Both generations have processed the result message.
BothCompleted ==
    /\ pc[1] = "streaming" /\ pc[2] = "streaming"
    /\ received[1] # <<>>
    /\ Len(received[1]) = Len(received[2])
    /\ LastOf(received[1]) = Result

FinalAnalysis(o) ==
    IF Idx(o, "analysis") = {} THEN <<>> ELSE o[Max(Idx(o, "analysis"))].content

\* Some event of type t comes before some event of type u in o.
Precedes(o, t, u) == \E i \in Idx(o, t), j \in Idx(o, u) : i < j

\* C3: a content delivered as text deltas and the same cumulative content
\* delivered as assistant messages produce equivalent events: the same final
\* analysis text, the same code in complete, and the same relative order of the
\* code_start, code and analysis events.
C3_DeliveryModesEquivalent ==
    BothCompleted =>
        /\ FinalAnalysis(out[1]) = FinalAnalysis(out[2])
        /\ LastOf(out[1]).code = LastOf(out[2]).code
        /\ \A t, u \in {"code_start", "code", "analysis"} :
              Precedes(out[1], t, u) <=> Precedes(out[2], t, u)

\* C7: a generation cancelled while streaming emits exactly one cancelled event,
\* nothing is emitted after it, and the generation neither completes nor fails.
C7_CancelledOnceAndLast ==
    \A g \in Gens :
        /\ Cardinality(Idx(out[g], "cancelled")) <= 1
        /\ Idx(out[g], "cancelled") # {} =>
              /\ Idx(out[g], "cancelled") = {Len(out[g])}
              /\ pc[g] = "cancelled"
        /\ pc[g] = "cancelled" => Idx(out[g], "cancelled") # {}
        /\ cancelRequested[g] => pc[g] \in {"streaming", "cancelled"}

\* A generation cancelled after it had sent code.
C7_Witness ==
    /\ pc[1] = "cancelled"
    /\ Len(received[1]) >= 1
    /\ Idx(out[1], "code") # {}

RECURSIVE ReplayEvents(_, _)
\* The events a generation alone emits for the messages msgs, from state s.
ReplayEvents(s, msgs) ==
    IF msgs = <<>> THEN <<>>
    ELSE ProcessMessage(s, Head(msgs)).events
         \o ReplayEvents(ProcessMessage(s, Head(msgs)).st, Tail(msgs))

\* C10: with two generations interleaved, the events of each response stream are
\* those its own backend messages produce from a fresh state, whatever the other
\* generation receives.
C10_EventIsolation ==
    \A g \in Gens :
        out[g] = IF Started(g)
                 THEN <<Status("connecting"), Status("thinking")>>
                      \o ReplayEvents(InitState, received[g])
                      \o (IF raised[g] # NoError THEN <<ErrorEvent(raised[g])>> ELSE <<>>)
                 ELSE <<>>

\* Two generations in flight, each with messages processed, one sending code
\* and the other analysis.
C10_Witness ==
    /\ pc[1] = "streaming" /\ pc[2] = "streaming"
    /\ Len(received[1]) = MaxConcMsgs /\ Len(received[2]) = MaxConcMsgs
    /\ Idx(out[1], "code") # {} /\ Idx(out[2], "code") = {}
    /\ Idx(out[2], "analysis") # {}

-----------------------------------------------------------------------------
\* C11: in every started generation the first outbound event is the connecting
\* status, and it is sent before any backend message is received: the step that
\* starts a generation sends events, the first event of a response is status
\* connecting and is sent while no message has been received, no later event is
\* a connecting status, and a message is consumed only once events were sent.
C11_ConnectingFirst ==
    [][\A g \in Gens :
          /\ (~Started(g) /\ Started(g)') => out'[g] # <<>>
          /\ (out[g] = <<>> /\ out'[g] # <<>>) =>
                /\ out'[g][1] = Status("connecting")
                /\ \A i \in 2..Len(out'[g]) : out'[g][i] # Status("connecting")
                /\ received[g] = <<>> /\ received'[g] = <<>>
          /\ out[g] # <<>> =>
                /\ IsPrefix(out[g], out'[g])
                /\ \A i \in DOMAIN NewEvents(g) :
                      NewEvents(g)[i] # Status("connecting")
          /\ received'[g] # received[g] => out[g] # <<>>]_vars

\* A generation that has sent its first events and has received no message yet.
C11_Witness ==
    /\ pc[1] = "streaming"
    /\ received[1] = <<>>
    /\ out[1] # <<>>
    /\ out[1][1] = Status("connecting")

-----------------------------------------------------------------------------
\* The messages consumed are text deltas, and result messages, alone.
DeltasAndResults(g) ==
    \A i \in 1..Len(received[g]) :
        \/ received[g][i] = Result
        \/ received[g][i].type = "stream_event"
           /\ received[g][i].event = "content_block_delta"

\* C12: while the text arrives as text deltas, the payload of every code event
\* is a prefix of the payload of every later code event and of the code of every
\* later complete event, wherever the buffer is cut, the closing delimiter
\* included.
C12_CodePayloadsGrow ==
    \A g \in Gens :
        DeltasAndResults(g) =>
            \A i \in Idx(out[g], "code") :
                /\ \A j \in Idx(out[g], "code") :
                      i < j => IsPrefix(out[g][i].content, out[g][j].content)
                /\ \A k \in Idx(out[g], "complete") :
                      i < k => IsPrefix(out[g][i].content, out[g][k].code)

-----------------------------------------------------------------------------
\* C13 as stated: consuming one backend message appends at most one event to
\* the response.
C13_AtMostOneEventPerFragment ==
    [][\A g \in Gens :
          received'[g] # received[g] => Len(out'[g]) <= Len(out[g]) + 1]_vars

\* C13, amended: consuming one backend message appends nothing, or one event, or
\* a group of events in a fixed order. A text delta appends nothing, analysis,
\* code, or code_start followed by code, the latter exactly when the buffer
\* comes to hold the marker and code_start was not sent before; an assistant
\* message appends at most three events, code_start, code and analysis in that
\* order, code_start only together with code; any other message appends at most
\* one event.
C13_EventsPerFragment ==
    [][\A g \in Gens :
          received'[g] # received[g] =>
              LET m == LastOf(received'[g])
              IN  /\ IsPrefix(out[g], out'[g])
                  /\ IsTextDelta(m) =>
                        /\ NewTypes(g) \in {<<>>, <<"analysis">>, <<"code">>,
                                            <<"code_start", "code">>}
                        /\ NewTypes(g) = <<"code_start", "code">>
                              <=> /\ ~st[g].codeStarted
                                  /\ Includes(st'[g].fullResponse, MARKER)
                  /\ m.type = "assistant" =>
                        NewTypes(g) \in {<<>>, <<"analysis">>, <<"code">>,
                                         <<"code", "analysis">>,
                                         <<"code_start", "code">>,
                                         <<"code_start", "code", "analysis">>}
                  /\ (~IsTextDelta(m) /\ m.type # "assistant") =>
                        Len(NewTypes(g)) <= 1]_vars

\* One text delta was consumed and two events, code_start and code, were sent
\* for it.
C13_Witness ==
    /\ Len(received[1]) = 1
    /\ IsTextDelta(received[1][1])
    /\ Len(out[1]) = 4
    /\ out[1][3] = CodeStart
    /\ out[1][4].type = "code"

-----------------------------------------------------------------------------
\* C14: an analysis event is sent only when its text differs from the analysis
\* last sent: no analysis event carries the same text as the analysis event
\* before it in the same generation, whether the text came as text deltas or as
\* assistant messages.
C14_NoRepeatedAnalysis ==
    \A g \in Gens :
        \A j \in Idx(out[g], "analysis") :
            LET prev == {i \in Idx(out[g], "analysis") : i < j}
            IN  prev # {} => out[g][Max(prev)].content # out[g][j].content

-----------------------------------------------------------------------------
\* A message that brings text: a text delta, or an assistant message with text.
IsTextFragment(m) ==
    \/ IsTextDelta(m)
    \/ m.type = "assistant" /\ parseAgentMessage(m) \notin {Null, <<>>}

\* C15: once code_start has been sent, every later message that brings text,
\* text delta or assistant message, has a code event sent for it and no
\* analysis event.
C15_CodeRegionNeverLeft ==
    [][\A g \in Gens :
          ( /\ Idx(out[g], "code_start") # {}
            /\ received'[g] # received[g]
            /\ IsTextFragment(LastOf(received'[g])) )
          => /\ \E i \in DOMAIN NewTypes(g) : NewTypes(g)[i] = "code"
             /\ \A i \in DOMAIN NewTypes(g) : NewTypes(g)[i] # "analysis"]_vars

-----------------------------------------------------------------------------
\* C16: when the text arrives as text deltas alone, however the opening marker
\* is cut, code_start is sent for a text delta exactly when that delta makes the
\* buffer hold the complete marker for the first time; it is followed by a code
\* event, whose payload is empty when nothing follows the marker, and no error
\* event is sent.
C16_CodeStartOnMarkerCompletion ==
    [][\A g \in Gens :
          ( /\ OnlyDeltas(g)
            /\ received'[g] # received[g]
            /\ IsTextDelta(LastOf(received'[g])) )
          => LET before == st[g].fullResponse
                 after == st'[g].fullResponse
                 first == ~Includes(before, MARKER) /\ Includes(after, MARKER)
             IN  /\ (\E i \in DOMAIN NewTypes(g) : NewTypes(g)[i] = "code_start")
                       <=> first
                 /\ first => NewTypes(g) = <<"code_start", "code">>
                 /\ (first /\ From(after, MarkerAt(after) + Len(MARKER)) = <<>>)
                       => NewEvents(g) = <<CodeStart, Code(<<>>)>>
                 /\ \A i \in DOMAIN NewTypes(g) : NewTypes(g)[i] # "error"]_vars

\* The marker arrived cut in three, with nothing after it: code_start and an
\* empty code event were sent for the delta that completed it.
C16_Witness ==
    /\ received[1] = <<TextDelta(<<"a", BT>>), TextDelta(<<BT, BT, "h">>),
                       TextDelta(<<"t", "m", "l">>)>>
    /\ Len(out[1]) = 6
    /\ out[1][5] = CodeStart
    /\ out[1][6] = Code(<<>>)

-----------------------------------------------------------------------------
\* s holds the opening marker and a closing delimiter after it.
Closed(s) == Includes(s, MARKER) /\ ~Unclosed(s)

\* The text of s between its first opening marker, with the newline that may
\* follow it, and the first closing delimiter after them (s is closed).
Between(s) ==
    LET a == AfterMarker(s)
    IN  SubSeq(a, 1, Min({e \in 1..Len(a) : StartsAt(a, FENCE, e)}) - 1)

\* C17: once the buffer holds a closing delimiter after the opening marker, the
\* code kept, every code event sent for a message that appends text to the
\* buffer, and the complete event carry the text between the marker and the
\* first closing delimiter; the text appended after the delimiter leaves that
\* payload as it was.
C17_ClosedPayloadStable ==
    [][\A g \in Gens :
          (pc[g] = "streaming" /\ received'[g] # received[g]) =>
              LET m == LastOf(received'[g])
                  before == st[g].fullResponse
                  after == st'[g].fullResponse
              IN  /\ Closed(before) => st[g].codeContent = Between(before)
                  /\ (IsTextFragment(m) /\ IsPrefix(before, after) /\ Closed(after)) =>
                        /\ st'[g].codeContent = Between(after)
                        /\ \E i \in DOMAIN NewEvents(g) :
                              NewEvents(g)[i] = Code(Between(after))
                        /\ \A i \in DOMAIN NewEvents(g) :
                              NewEvents(g)[i].type = "code"
                                 => NewEvents(g)[i] = Code(Between(after))
                        /\ Closed(before) => Between(after) = Between(before)
                  /\ (m = Result /\ Closed(before)) =>
                        NewEvents(g) = <<Complete(Between(before))>>]_vars

\* The output of Text2 arrived in text deltas: the code was closed by the third,
\* the fourth appended text and another delimiter, and the result message
\* followed; the code sent stayed the text before the first delimiter.
C17_Witness ==
    /\ Len(received[1]) = 4
    /\ \A i \in 1..3 : IsTextDelta(received[1][i])
    /\ received[1][4] = Result
    /\ st[1].fullResponse = Text2
    /\ Closed(received[1][1].text \o received[1][2].text)
    /\ received[1][3].text # <<>>
    /\ LastOf(out[1]) = Complete(<<"c">>)
    /\ out[1][Len(out[1]) - 1] = Code(<<"c">>)

-----------------------------------------------------------------------------
\* C18 as stated: a thinking or generating status is in the response only when
\* at least one backend message has been received.
C18_StatusAfterFirstMessage ==
    \A g \in Gens :
        (\E i \in Idx(out[g], "status") : out[g][i].phase \in {"thinking", "generating"})
            => received[g] # <<>>

\* C18, amended: the thinking status is sent once, as the second event, in the
\* step that creates the query, before any backend message is received, and so
\* also when the stream delivers none; it is not sent when creating the query
\* fails. A generating status is sent for each init message received and for
\* nothing else.
C18_ThinkingAtStartGeneratingOnInit ==
    [][\A g \in Gens :
          LET thinking == {i \in DOMAIN NewEvents(g) :
                              NewEvents(g)[i] = Status("thinking")}
              generating == {i \in DOMAIN NewEvents(g) :
                                NewEvents(g)[i] = Status("generating")}
          IN  /\ thinking # {} <=> (pc[g] = "idle" /\ pc'[g] = "streaming")
              /\ thinking # {} =>
                    /\ out'[g] = <<Status("connecting"), Status("thinking")>>
                    /\ received'[g] = <<>>
              /\ (pc[g] = "idle" /\ pc'[g] = "failed") =>
                    out'[g] = <<Status("connecting"), ErrorEvent(raised'[g])>>
              /\ generating # {} <=>
                    (received'[g] # received[g] /\ LastOf(received'[g]) = SystemInit)
              /\ Cardinality(generating) <= 1]_vars

\* The stream ended without delivering a message; the thinking status was sent.
C18_Witness ==
    /\ pc[1] = "done"
    /\ received[1] = <<>>
    /\ out[1] = <<Status("connecting"), Status("thinking")>>

-----------------------------------------------------------------------------
\* The indices of the terminal events of the event sequence o.
Terminal(o) == Idx(o, "complete") \cup Idx(o, "error")

\* C19: a started generation whose backend stream has ended or has failed has
\* sent exactly one terminal event, complete or error, as its last event, and
\* its response is closed.
C19_OneTerminalEventLast ==
    \A g \in Gens :
        pc[g] \in {"done", "failed"} =>
            /\ ended[g]
            /\ Terminal(out[g]) = {Len(out[g])}

=============================================================================
